---- MODULE Spec2Model ----
(***************************************************************************)
(* Model of deepseektg.py: the /start handler, the message handler with    *)
(* its throttled edit loop, and the streaming adapter around the blocking  *)
(* completion iterator.  One atomic action per stretch of handler code     *)
(* between two awaits; a platform call is issued in one action and its     *)
(* return (value or exception) is taken in the next.                       *)
(***************************************************************************)
EXTENDS Integers, Sequences, FiniteSets, TLC

\* ---------------------------------------------------------------- bounds
\* number of chunks the upstream may produce in one request
MaxChunks == 3
\* a request is observed for MaxIntervals edit intervals; the clock is
\* observed every TickSeconds seconds, MaxTicks times per request
TickSeconds == 2
MaxIntervals == 2
\* length of the buffers the sanitization is tried on
MaxLen == 5
\* length of the text in front of the padding of a long buffer
HeadLen == 2
\* number of chunks per request when requests run side by side
ConcChunks == 2
\* number of times the clock is seen to advance, by the edit interval, while
\* requests run side by side
ConcTicks == 1

\* ------------------------------------------------------ program constants
AUTHORIZED_USERS == {123456789, 987654321}
MAX_MESSAGE_LENGTH == 4096
\* the literal 4 of "now - last_update_time >= 4"
UPDATE_INTERVAL == 4

MaxTicks == (UPDATE_INTERVAL * MaxIntervals) \div TickSeconds
MaxTime == TickSeconds * MaxTicks

\* senders: the two authorized identifiers and one that is not in the list
Users == AUTHORIZED_USERS \cup {111111111}

NOT_AUTHORIZED_TEXT == "You're not authorized to use this bot."
HELLO_TEXT == "Hello! You're authorized. Send me a message and I'll reply using Fireworks AI."
PLEASE_START_TEXT == "Please type /start to begin."
PROCESSING_TEXT == "Processing your request, please wait..."
\* "Sorry, there was an error processing your request." as a character sequence
APOLOGY_TEXT ==
  << "S","o","r","r","y",","," ","t","h","e","r","e"," ","w","a","s"," ",
     "a","n"," ","e","r","r","o","r"," ","p","r","o","c","e","s","s","i","n","g",
     " ","y","o","u","r"," ","r","e","q","u","e","s","t","." >>

\* characters a chunk of model output is made of
Alphabet == {"<", ">", "a", " ", "\n"}
Whitespace == {" ", "\n"}
\* chunk.choices[0].delta.content when it is truthy: a non-empty text
Fragments == {<<c>> : c \in {"<", ">", "a"}}
\* a chunk whose content is empty or None
EmptyContent == <<>>

\* ------------------------------------------------------------ sanitization
\* ".*?>" if "." matched every character, the newline too
FirstCloseDotAll(s, k) ==
  LET stops == {j \in k..Len(s) : s[j] = ">"}
  IN  IF stops = {} THEN 0 ELSE CHOOSE j \in stops : \A x \in stops : j <= x

\* re: ".*?>" tried from position k: the position of the first ">" that is
\* reached without crossing a newline ("." matches no newline), 0 if none
FirstClose(s, k) ==
  LET stops == {j \in k..Len(s) : s[j] = ">" \/ s[j] = "\n"}
      first == CHOOSE j \in stops : \A x \in stops : j <= x
  IN  IF stops = {} THEN 0
      ELSE IF s[first] = ">" THEN first
      ELSE 0

\* the greedy ".*>": the last ">" reached without crossing a newline
RECURSIVE LastClose(_, _)
LastClose(s, k) ==
  IF k > Len(s) \/ s[k] = "\n" THEN 0
  ELSE IF LastClose(s, k + 1) # 0 THEN LastClose(s, k + 1)
  ELSE IF s[k] = ">" THEN k
  ELSE 0

\* re.sub with the greedy pattern "<.*>"
RECURSIVE ReSubGreedyFrom(_, _)
ReSubGreedyFrom(s, i) ==
  IF i > Len(s) THEN <<>>
  ELSE IF s[i] = "<" /\ LastClose(s, i + 1) # 0
       THEN ReSubGreedyFrom(s, LastClose(s, i + 1) + 1)
       ELSE <<s[i]>> \o ReSubGreedyFrom(s, i + 1)

ReSubGreedy(s) == ReSubGreedyFrom(s, 1)

\* re.sub(r"<.*?>", "", s) from position i on: the leftmost match at or
\* after i is searched, the text before it is kept, the match is dropped and
\* the search goes on behind it
RECURSIVE ReSubFrom(_, _)
ReSubFrom(s, i) ==
  LET opens == {k \in i..Len(s) : s[k] = "<" /\ FirstClose(s, k + 1) # 0}
      open == CHOOSE k \in opens : \A x \in opens : k <= x
  IN  IF i > Len(s) THEN <<>>
      ELSE IF opens = {} THEN SubSeq(s, i, Len(s))
      ELSE SubSeq(s, i, open - 1) \o ReSubFrom(s, FirstClose(s, open + 1) + 1)

ReSub(s) == ReSubFrom(s, 1)

\* str.strip()
RECURSIVE LStrip(_)
LStrip(s) == IF s # <<>> /\ Head(s) \in Whitespace THEN LStrip(Tail(s)) ELSE s

RECURSIVE RStrip(_)
RStrip(s) ==
  IF s # <<>> /\ s[Len(s)] \in Whitespace THEN RStrip(SubSeq(s, 1, Len(s) - 1)) ELSE s

Strip(s) == RStrip(LStrip(s))

\* re.sub(r"<.*?>", "", accumulated_text).strip()
Sanitize(s) == Strip(ReSub(s))

\* the truncation keeping the start: cleaned_text[:MAX_MESSAGE_LENGTH]
TruncateKeepStart(s) ==
  IF Len(s) > MAX_MESSAGE_LENGTH THEN SubSeq(s, 1, MAX_MESSAGE_LENGTH) ELSE s

\* cleaned_text[-MAX_MESSAGE_LENGTH:] when it is too long
Truncate(s) ==
  IF Len(s) > MAX_MESSAGE_LENGTH
    THEN SubSeq(s, Len(s) - MAX_MESSAGE_LENGTH + 1, Len(s))
    ELSE s

\* the text of an edit that shows model output
Snapshot(s) == Truncate(Sanitize(s))

\* ------------------------------------------------------------------ state
VARIABLES
  started_users,     \* the global set started_users
  pc,                \* the await the running handler is suspended at, or "idle"
  handler,           \* "none", "start" or "handle_message": the handler last dispatched
  user_id,           \* its sender
  outcome,           \* "none", "running", "returned", or "raised" (exception left the handler)
  old_started,       \* started_users when the handler was dispatched
  sent,              \* texts of the reply_text calls of this handler run, in order
  typing,            \* number of send_chat_action calls of this handler run
  stream,            \* "none", "open", "exhausted", "error": the completion of this run
  upstream,          \* contents of the chunks the upstream produced so far
  arrivals,          \* the value of now at each fragment delivered to the handler
  accumulated_text,
  last_update_time,
  now,
  clock,             \* time.monotonic(), in seconds since the read of line 103
  edits,             \* edit_text calls of this run: [kind, text, at], in order of issue
  edit_results,      \* TRUE/FALSE per finished edit_text call: returned / raised
  errors_logged,     \* logging.error / logging.exception calls of this run
  requests           \* handler runs in flight side by side: the locals of each

vars == << started_users, pc, handler, user_id, outcome, old_started, sent, typing,
           stream, upstream, arrivals, accumulated_text, last_update_time, now,
           clock, edits, edit_results, errors_logged, requests >>

request == << stream, upstream, arrivals, accumulated_text, last_update_time, now,
              edits, edit_results, errors_logged >>

\* the handler runs that can be in flight side by side: one message of each
\* authorized user
Requests == AUTHORIZED_USERS

\* lines 98-103: the locals of a run of handle_message that has not begun
LocalsAtDispatch ==
  [ pc |-> "idle", processing_message |-> 0, stream |-> "none", upstream |-> <<>>,
    accumulated_text |-> <<>>, last_update_time |-> 0, now |-> 0, edits |-> <<>> ]

NoRequests == [r \in Requests |-> LocalsAtDispatch]

Init ==
  /\ started_users = {}
  /\ pc = "idle"
  /\ handler = "none"
  /\ user_id = 0
  /\ outcome = "none"
  /\ old_started = {}
  /\ sent = <<>>
  /\ typing = 0
  /\ stream = "none"
  /\ upstream = <<>>
  /\ arrivals = <<>>
  /\ accumulated_text = <<>>
  /\ last_update_time = 0
  /\ now = 0
  /\ clock = 0
  /\ edits = <<>>
  /\ edit_results = <<>>
  /\ errors_logged = <<>>
  /\ requests = NoRequests

\* a fresh handler run: nothing sent, no stream, no locals yet
FreshRun ==
  /\ typing' = 0
  /\ stream' = "none"
  /\ upstream' = <<>>
  /\ arrivals' = <<>>
  /\ accumulated_text' = <<>>
  /\ last_update_time' = 0
  /\ now' = 0
  /\ clock' = 0
  /\ edits' = <<>>
  /\ edit_results' = <<>>
  /\ errors_logged' = <<>>

Edit(kind, text) == [kind |-> kind, text |-> text, at |-> clock]

\* ------------------------------------------------------------------ start
\* start without the check of line 70: every sender is added
StartNoAuthCheck(u) ==
  /\ pc = "idle"
  /\ handler' = "start"
  /\ user_id' = u
  /\ outcome' = "running"
  /\ old_started' = started_users
  /\ started_users' = started_users \cup {u}
  /\ sent' = IF u \notin AUTHORIZED_USERS THEN <<NOT_AUTHORIZED_TEXT>> ELSE <<HELLO_TEXT>>
  /\ pc' = "start_reply"
  /\ FreshRun
  /\ UNCHANGED requests

\* /start of an authorized sender begins a new set instead of adding to it
StartResets(u) ==
  /\ pc = "idle"
  /\ handler' = "start"
  /\ user_id' = u
  /\ outcome' = "running"
  /\ old_started' = started_users
  /\ IF u \notin AUTHORIZED_USERS
       THEN /\ sent' = <<NOT_AUTHORIZED_TEXT>>
            /\ started_users' = started_users
       ELSE /\ started_users' = {u}
            /\ sent' = <<HELLO_TEXT>>
  /\ pc' = "start_reply"
  /\ FreshRun
  /\ UNCHANGED requests

\* lines 67-72 / 67-76, up to the await of reply_text
Start(u) ==
  /\ pc = "idle"
  /\ handler' = "start"
  /\ user_id' = u
  /\ outcome' = "running"
  /\ old_started' = started_users
  /\ IF u \notin AUTHORIZED_USERS
       THEN /\ sent' = <<NOT_AUTHORIZED_TEXT>>
            /\ started_users' = started_users
       ELSE /\ started_users' = started_users \cup {u}
            /\ sent' = <<HELLO_TEXT>>
  /\ pc' = "start_reply"
  /\ FreshRun
  /\ UNCHANGED requests

\* the reply_text of line 72 or 76 returns or raises; the handler ends either way
StartReplyReturn(ok) ==
  /\ pc = "start_reply"
  /\ pc' = "idle"
  /\ outcome' = IF ok THEN "returned" ELSE "raised"
  /\ UNCHANGED << started_users, handler, user_id, old_started, sent, typing, clock >>
  /\ UNCHANGED request
  /\ UNCHANGED requests

\* --------------------------------------------------------- handle_message
\* handle_message without the check of line 90
HandleMessageNoAuthCheck(u) ==
  /\ pc = "idle"
  /\ handler' = "handle_message"
  /\ user_id' = u
  /\ old_started' = started_users
  /\ UNCHANGED started_users
  /\ FreshRun
  /\ outcome' = "running"
  /\ IF u \notin started_users
       THEN /\ sent' = <<PLEASE_START_TEXT>>
            /\ pc' = "prompt_reply"
       ELSE /\ sent' = <<PROCESSING_TEXT>>
            /\ pc' = "placeholder_send"
  /\ UNCHANGED requests

\* handle_message without the check of line 94
HandleMessageNoStartedCheck(u) ==
  /\ pc = "idle"
  /\ handler' = "handle_message"
  /\ user_id' = u
  /\ old_started' = started_users
  /\ UNCHANGED started_users
  /\ FreshRun
  /\ IF u \notin AUTHORIZED_USERS
       THEN /\ sent' = <<>>
            /\ pc' = "idle"
            /\ outcome' = "returned"
       ELSE /\ sent' = <<PROCESSING_TEXT>>
            /\ pc' = "placeholder_send"
            /\ outcome' = "running"
  /\ UNCHANGED requests

\* lines 86-99: the two checks, then the placeholder is sent
HandleMessage(u) ==
  /\ pc = "idle"
  /\ handler' = "handle_message"
  /\ user_id' = u
  /\ old_started' = started_users
  /\ UNCHANGED started_users
  /\ FreshRun
  /\ IF u \notin AUTHORIZED_USERS
       THEN /\ sent' = <<>>
            /\ pc' = "idle"
            /\ outcome' = "returned"
       ELSE IF u \notin started_users
         THEN /\ sent' = <<PLEASE_START_TEXT>>
              /\ pc' = "prompt_reply"
              /\ outcome' = "running"
         ELSE /\ sent' = <<PROCESSING_TEXT>>
              /\ pc' = "placeholder_send"
              /\ outcome' = "running"
  /\ UNCHANGED requests

\* lines 95-96: the prompt's reply_text returns or raises; the handler ends
PromptReturn(ok) ==
  /\ pc = "prompt_reply"
  /\ pc' = "idle"
  /\ outcome' = IF ok THEN "returned" ELSE "raised"
  /\ UNCHANGED << started_users, handler, user_id, old_started, sent, typing, clock >>
  /\ UNCHANGED request
  /\ UNCHANGED requests

\* line 99 returns the placeholder, line 100 issues the typing indicator;
\* an exception of reply_text is not caught
PlaceholderReturn(ok) ==
  /\ pc = "placeholder_send"
  /\ IF ok
       THEN /\ typing' = typing + 1
            /\ pc' = "typing"
            /\ UNCHANGED outcome
       ELSE /\ pc' = "idle"
            /\ outcome' = "raised"
            /\ UNCHANGED typing
  /\ UNCHANGED << started_users, handler, user_id, old_started, sent, clock >>
  /\ UNCHANGED request
  /\ UNCHANGED requests

\* line 100 returns; lines 102-106 set the locals and start the first pull.
\* An exception of send_chat_action is not caught
TypingReturn(ok) ==
  /\ pc = "typing"
  /\ IF ok
       THEN /\ accumulated_text' = <<>>
            /\ last_update_time' = clock
            /\ stream' = "open"
            /\ pc' = "pulling"
            /\ UNCHANGED outcome
       ELSE /\ pc' = "idle"
            /\ outcome' = "raised"
            /\ UNCHANGED << accumulated_text, last_update_time, stream >>
  /\ UNCHANGED << started_users, handler, user_id, old_started, sent, typing, clock,
                  upstream, arrivals, now, edits, edit_results, errors_logged >>
  /\ UNCHANGED requests

\* a chunk without content taken for the end-of-sequence sentinel
SkipChunkEndsSequence ==
  /\ pc = "pulling"
  /\ Len(upstream) < MaxChunks
  /\ upstream' = Append(upstream, EmptyContent)
  /\ stream' = "exhausted"
  /\ edits' = Append(edits, Edit("final", Snapshot(accumulated_text)))
  /\ pc' = "final_edit"
  /\ UNCHANGED << started_users, handler, user_id, outcome, old_started, sent,
                  typing, arrivals, accumulated_text, last_update_time, now,
                  clock, edit_results, errors_logged >>
  /\ UNCHANGED requests

\* lines 46-47 in the worker: a chunk without content is passed over, the
\* blocking next(gen) goes on
SkipChunk ==
  /\ pc = "pulling"
  /\ Len(upstream) < MaxChunks
  /\ upstream' = Append(upstream, EmptyContent)
  /\ UNCHANGED << started_users, pc, handler, user_id, outcome, old_started, sent,
                  typing, stream, arrivals, accumulated_text, last_update_time, now,
                  clock, edits, edit_results, errors_logged >>
  /\ UNCHANGED requests

\* the throttle deciding and the snapshot taken before the chunk is appended
PullFragmentStale(c) ==
  /\ pc = "pulling"
  /\ Len(upstream) < MaxChunks
  /\ upstream' = Append(upstream, c)
  /\ accumulated_text' = accumulated_text \o c
  /\ now' = clock
  /\ arrivals' = Append(arrivals, clock)
  /\ IF clock - last_update_time >= UPDATE_INTERVAL
       THEN /\ edits' = Append(edits, Edit("flush", Snapshot(accumulated_text)))
            /\ pc' = "flush_edit"
       ELSE /\ UNCHANGED edits
            /\ pc' = "pulling"
  /\ UNCHANGED << started_users, handler, user_id, outcome, old_started, sent, typing,
                  stream, last_update_time, clock, edit_results, errors_logged >>
  /\ UNCHANGED requests

\* the cleaned text assigned back to the buffer when an edit is issued
PullFragmentKeepsCleaned(c) ==
  /\ pc = "pulling"
  /\ Len(upstream) < MaxChunks
  /\ upstream' = Append(upstream, c)
  /\ now' = clock
  /\ arrivals' = Append(arrivals, clock)
  /\ IF clock - last_update_time >= UPDATE_INTERVAL
       THEN /\ edits' = Append(edits, Edit("flush", Snapshot(accumulated_text \o c)))
            /\ accumulated_text' = Snapshot(accumulated_text \o c)
            /\ pc' = "flush_edit"
       ELSE /\ UNCHANGED edits
            /\ accumulated_text' = accumulated_text \o c
            /\ pc' = "pulling"
  /\ UNCHANGED << started_users, handler, user_id, outcome, old_started, sent, typing,
                  stream, last_update_time, clock, edit_results, errors_logged >>
  /\ UNCHANGED requests

\* the intermediate edit started without being awaited: the loop goes on to
\* the next pull while the edit is outstanding
PullFragmentNoAwait(c) ==
  /\ pc = "pulling"
  /\ Len(upstream) < MaxChunks
  /\ upstream' = Append(upstream, c)
  /\ accumulated_text' = accumulated_text \o c
  /\ now' = clock
  /\ arrivals' = Append(arrivals, clock)
  /\ IF clock - last_update_time >= UPDATE_INTERVAL
       THEN /\ edits' = Append(edits, Edit("flush", Snapshot(accumulated_text')))
            /\ last_update_time' = clock
       ELSE UNCHANGED << edits, last_update_time >>
  /\ pc' = "pulling"
  /\ UNCHANGED << started_users, handler, user_id, outcome, old_started, sent, typing,
                  stream, clock, edit_results, errors_logged >>
  /\ UNCHANGED requests

\* lines 48, 55, 60-63, 107-116: a chunk with content c is yielded to the
\* handler, appended, and the throttle decides whether an edit is issued
PullFragment(c) ==
  /\ pc = "pulling"
  /\ Len(upstream) < MaxChunks
  /\ upstream' = Append(upstream, c)
  /\ accumulated_text' = accumulated_text \o c
  /\ now' = clock
  /\ arrivals' = Append(arrivals, clock)
  /\ IF clock - last_update_time >= UPDATE_INTERVAL
       THEN /\ edits' = Append(edits, Edit("flush", Snapshot(accumulated_text \o c)))
            /\ pc' = "flush_edit"
       ELSE /\ UNCHANGED edits
            /\ pc' = "pulling"
  /\ UNCHANGED << started_users, handler, user_id, outcome, old_started, sent, typing,
                  stream, last_update_time, clock, edit_results, errors_logged >>
  /\ UNCHANGED requests

\* last_update_time recorded inside the try, so only when the edit succeeded
FlushReturnKeepsTimeOnFailure(ok) ==
  /\ pc = "flush_edit"
  /\ edit_results' = Append(edit_results, ok)
  /\ errors_logged' = IF ok THEN errors_logged
                            ELSE Append(errors_logged, "Error updating message")
  /\ last_update_time' = IF ok THEN now ELSE last_update_time
  /\ pc' = "pulling"
  /\ UNCHANGED << started_users, handler, user_id, outcome, old_started, sent, typing,
                  stream, upstream, arrivals, accumulated_text, now, clock, edits >>
  /\ UNCHANGED requests

\* lines 116-119: the intermediate edit returns or raises (caught and logged)
FlushReturn(ok) ==
  /\ pc = "flush_edit"
  /\ edit_results' = Append(edit_results, ok)
  /\ errors_logged' = IF ok THEN errors_logged
                            ELSE Append(errors_logged, "Error updating message")
  /\ last_update_time' = now
  /\ pc' = "pulling"
  /\ UNCHANGED << started_users, handler, user_id, outcome, old_started, sent, typing,
                  stream, upstream, arrivals, accumulated_text, now, clock, edits >>
  /\ UNCHANGED requests

\* the final edit put under the throttle of the intermediate ones
PullExhaustedThrottled ==
  /\ pc = "pulling"
  /\ stream' = "exhausted"
  /\ IF clock - last_update_time >= UPDATE_INTERVAL
       THEN /\ edits' = Append(edits, Edit("final", Snapshot(accumulated_text)))
            /\ pc' = "final_edit"
            /\ UNCHANGED outcome
       ELSE /\ UNCHANGED edits
            /\ pc' = "idle"
            /\ outcome' = "returned"
  /\ UNCHANGED << started_users, handler, user_id, old_started, sent, typing,
                  upstream, arrivals, accumulated_text, last_update_time, now, clock,
                  edit_results, errors_logged >>
  /\ UNCHANGED requests

\* lines 56-57, 61-62, 122-125: StopIteration, the sentinel ends the
\* sequence, the final snapshot is edited in
PullExhausted ==
  /\ pc = "pulling"
  /\ stream' = "exhausted"
  /\ edits' = Append(edits, Edit("final", Snapshot(accumulated_text)))
  /\ pc' = "final_edit"
  /\ UNCHANGED << started_users, handler, user_id, outcome, old_started, sent, typing,
                  upstream, arrivals, accumulated_text, last_update_time, now, clock,
                  edit_results, errors_logged >>
  /\ UNCHANGED requests

\* an upstream error answered with the buffered text instead of the apology
PullErrorShowsPartial ==
  /\ pc = "pulling"
  /\ stream' = "error"
  /\ errors_logged' = Append(errors_logged, "Error during streaming")
  /\ edits' = Append(edits, Edit("apology", Snapshot(accumulated_text)))
  /\ pc' = "apology_edit"
  /\ UNCHANGED << started_users, handler, user_id, outcome, old_started, sent, typing,
                  upstream, arrivals, accumulated_text, last_update_time, now, clock,
                  edit_results >>
  /\ UNCHANGED requests

\* lines 41-46 raise in the worker; the exception reaches line 126-128
PullError ==
  /\ pc = "pulling"
  /\ stream' = "error"
  /\ errors_logged' = Append(errors_logged, "Error during streaming")
  /\ edits' = Append(edits, Edit("apology", APOLOGY_TEXT))
  /\ pc' = "apology_edit"
  /\ UNCHANGED << started_users, handler, user_id, outcome, old_started, sent, typing,
                  upstream, arrivals, accumulated_text, last_update_time, now, clock,
                  edit_results >>
  /\ UNCHANGED requests

\* line 125 returns (the handler ends) or raises inside the try of line 105:
\* lines 126-128 log it and issue the apology edit
FinalReturn(ok) ==
  /\ pc = "final_edit"
  /\ edit_results' = Append(edit_results, ok)
  /\ IF ok
       THEN /\ pc' = "idle"
            /\ outcome' = "returned"
            /\ UNCHANGED << edits, errors_logged >>
       ELSE /\ errors_logged' = Append(errors_logged, "Error during streaming")
            /\ edits' = Append(edits, Edit("apology", APOLOGY_TEXT))
            /\ pc' = "apology_edit"
            /\ UNCHANGED outcome
  /\ UNCHANGED << started_users, handler, user_id, old_started, sent, typing, stream,
                  upstream, arrivals, accumulated_text, last_update_time, now, clock >>
  /\ UNCHANGED requests

\* line 128 returns or raises; nothing catches it
ApologyReturn(ok) ==
  /\ pc = "apology_edit"
  /\ edit_results' = Append(edit_results, ok)
  /\ pc' = "idle"
  /\ outcome' = IF ok THEN "returned" ELSE "raised"
  /\ UNCHANGED << started_users, handler, user_id, old_started, sent, typing, stream,
                  upstream, arrivals, accumulated_text, last_update_time, now, clock,
                  edits, errors_logged >>
  /\ UNCHANGED requests

\* time passing with a timer that pushes the buffer once the interval is over
TickPeriodicFlush ==
  /\ pc \in {"pulling", "flush_edit"}
  /\ clock + TickSeconds <= MaxTime
  /\ clock' = clock + TickSeconds
  /\ IF pc = "pulling" /\ clock' - last_update_time >= UPDATE_INTERVAL
       THEN /\ edits' = Append(edits, [kind |-> "flush",
                                       text |-> Snapshot(accumulated_text),
                                       at |-> clock'])
            /\ edit_results' = Append(edit_results, TRUE)
            /\ last_update_time' = clock'
       ELSE UNCHANGED << edits, edit_results, last_update_time >>
  /\ UNCHANGED << started_users, pc, handler, user_id, outcome, old_started, sent,
                  typing, stream, upstream, arrivals, accumulated_text, now,
                  errors_logged >>
  /\ UNCHANGED requests

\* wall-clock time passes while the handler is suspended in the streaming loop
\* (awaiting a pull or an intermediate edit): the only stretches of time the
\* handler's two clock reads, lines 103 and 108, can tell apart
Tick ==
  /\ pc \in {"pulling", "flush_edit"}
  /\ clock + TickSeconds <= MaxTime
  /\ clock' = clock + TickSeconds
  /\ UNCHANGED << started_users, pc, handler, user_id, outcome, old_started, sent,
                  typing >>
  /\ UNCHANGED request
  /\ UNCHANGED requests

Next ==
  \/ \E u \in Users : Start(u)
  \/ \E ok \in BOOLEAN : StartReplyReturn(ok)
  \/ \E u \in Users : HandleMessage(u)
  \/ \E ok \in BOOLEAN : PromptReturn(ok)
  \/ \E ok \in BOOLEAN : PlaceholderReturn(ok)
  \/ \E ok \in BOOLEAN : TypingReturn(ok)
  \/ SkipChunk
  \/ \E c \in Fragments : PullFragment(c)
  \/ \E ok \in BOOLEAN : FlushReturn(ok)
  \/ PullExhausted
  \/ PullError
  \/ \E ok \in BOOLEAN : FinalReturn(ok)
  \/ \E ok \in BOOLEAN : ApologyReturn(ok)
  \/ Tick

Spec == Init /\ [][Next]_vars

TypeOK ==
  /\ started_users \subseteq Users
  /\ pc \in {"idle", "start_reply", "prompt_reply", "placeholder_send", "typing",
             "pulling", "flush_edit", "final_edit", "apology_edit"}
  /\ outcome \in {"none", "running", "returned", "raised"}
  /\ clock \in 0..MaxTime
  /\ Len(upstream) <= MaxChunks

\* ------------------------------------------- the final edit of any buffer
\* the handler after one pull that delivered an arbitrary text as its only
\* fragment (or none), at the time streaming began
Texts == UNION {[1..n -> Alphabet] : n \in 0..MaxLen}

SanInit ==
  /\ user_id \in AUTHORIZED_USERS
  /\ started_users = {user_id}
  /\ old_started = started_users
  /\ handler = "handle_message"
  /\ outcome = "running"
  /\ pc = "pulling"
  /\ sent = <<PROCESSING_TEXT>>
  /\ typing = 1
  /\ stream = "open"
  /\ accumulated_text \in Texts
  /\ upstream = IF accumulated_text = <<>> THEN <<>> ELSE <<accumulated_text>>
  /\ arrivals = IF accumulated_text = <<>> THEN <<>> ELSE <<0>>
  /\ last_update_time = 0
  /\ now = 0
  /\ clock = 0
  /\ edits = <<>>
  /\ edit_results = <<>>
  /\ errors_logged = <<>>
  /\ requests = NoRequests

SanNext ==
  \/ PullExhausted
  \/ \E ok \in BOOLEAN : FinalReturn(ok)
  \/ \E ok \in BOOLEAN : ApologyReturn(ok)

SanSpec == SanInit /\ [][SanNext]_vars

\* ------------------------------------------- buffers around the maximum
\* the handler after a short first chunk (the head, possibly without content)
\* and a second one a
\* character short of the maximum message length, both delivered as streaming
\* began; the next fragments carry the buffer across the maximum, before or
\* after the first interval
Heads == UNION {[1..n -> Alphabet] : n \in 0..HeadLen}

Padding == [i \in 1..(MAX_MESSAGE_LENGTH - 1) |-> "a"]

TruncInit ==
  /\ user_id = CHOOSE u \in AUTHORIZED_USERS : TRUE
  /\ started_users = {user_id}
  /\ old_started = started_users
  /\ handler = "handle_message"
  /\ outcome = "running"
  /\ pc = "pulling"
  /\ sent = <<PROCESSING_TEXT>>
  /\ typing = 1
  /\ stream = "open"
  /\ \E h \in Heads :
       /\ accumulated_text = h \o Padding
       /\ upstream = <<h, Padding>>
       /\ arrivals = IF h = EmptyContent THEN <<0>> ELSE <<0, 0>>
  /\ last_update_time = 0
  /\ now = 0
  /\ clock \in {0, UPDATE_INTERVAL}
  /\ edits = <<>>
  /\ edit_results = <<>>
  /\ errors_logged = <<>>
  /\ requests = NoRequests

TruncNext ==
  \/ \E c \in Fragments : PullFragment(c)
  \/ \E ok \in BOOLEAN : FlushReturn(ok)
  \/ PullExhausted
  \/ \E ok \in BOOLEAN : FinalReturn(ok)
  \/ \E ok \in BOOLEAN : ApologyReturn(ok)

TruncSpec == TruncInit /\ [][TruncNext]_vars

\* ------------------------------------------- requests in flight side by side
\* Two runs of handle_message interleave at their awaits.  Each run has its
\* own frame: processing_message, accumulated_text, last_update_time, now and
\* the generator of its own completion are locals (lines 99-109, 40-45);
\* time.monotonic() and the platform's message identifiers are shared.

\* the fragments of a request: a plain text and a tag
ConcFragments == {<<"a">>, <<"<", "a", ">">>}

\* the identifier the platform gives to the next message it creates
NextMessageId == Cardinality({q \in Requests : requests[q].processing_message # 0}) + 1

\* processing_message.edit_text(text) of request r
ConcEdit(r, kind, text) ==
  [kind |-> kind, target |-> requests[r].processing_message, text |-> text]

\* lines 86-99: a message of a started, authorized user; reply_text is issued
ConcAccept(r) ==
  /\ requests[r].pc = "idle"
  /\ r \in AUTHORIZED_USERS
  /\ r \in started_users
  /\ requests' = [requests EXCEPT ![r].pc = "placeholder_send"]
  /\ UNCHANGED << started_users, pc, handler, user_id, outcome, old_started, sent,
                  typing, clock >>
  /\ UNCHANGED request

\* line 99 returns the placeholder message or raises; line 100 is issued
ConcPlaceholderReturn(r, ok) ==
  /\ requests[r].pc = "placeholder_send"
  /\ requests' = [requests EXCEPT ![r] =
       IF ok THEN [@ EXCEPT !.processing_message = NextMessageId, !.pc = "typing"]
             ELSE [@ EXCEPT !.pc = "done"]]
  /\ UNCHANGED << started_users, pc, handler, user_id, outcome, old_started, sent,
                  typing, clock >>
  /\ UNCHANGED request

\* line 100 returns or raises; lines 102-106 set the locals, the first pull
\* is started
ConcTypingReturn(r, ok) ==
  /\ requests[r].pc = "typing"
  /\ requests' = [requests EXCEPT ![r] =
       IF ok THEN [@ EXCEPT !.accumulated_text = <<>>, !.last_update_time = clock,
                            !.stream = "open", !.pc = "pulling"]
             ELSE [@ EXCEPT !.pc = "done"]]
  /\ UNCHANGED << started_users, pc, handler, user_id, outcome, old_started, sent,
                  typing, clock >>
  /\ UNCHANGED request

\* the buffer kept in one module-level variable that every run appends to
ConcPullSharedBuffer(r, c) ==
  /\ requests[r].pc = "pulling"
  /\ Len(requests[r].upstream) < ConcChunks
  /\ LET text == requests[r].accumulated_text \o c
         flush == clock - requests[r].last_update_time >= UPDATE_INTERVAL
     IN  requests' = [q \in Requests |->
           IF q = r
             THEN [requests[r] EXCEPT
                     !.upstream = Append(@, c),
                     !.accumulated_text = text,
                     !.now = clock,
                     !.edits = IF flush THEN Append(@, ConcEdit(r, "flush", Snapshot(text)))
                                        ELSE @,
                     !.pc = IF flush THEN "flush_edit" ELSE "pulling"]
             ELSE [requests[q] EXCEPT !.accumulated_text = text]]
  /\ UNCHANGED << started_users, pc, handler, user_id, outcome, old_started, sent,
                  typing, clock >>
  /\ UNCHANGED request

\* lines 48, 60-63, 107-116 in request r: its generator yields a fragment
ConcPull(r, c) ==
  /\ requests[r].pc = "pulling"
  /\ Len(requests[r].upstream) < ConcChunks
  /\ LET text == requests[r].accumulated_text \o c
         flush == clock - requests[r].last_update_time >= UPDATE_INTERVAL
     IN  requests' = [requests EXCEPT ![r] =
           [@ EXCEPT
              !.upstream = Append(@, c),
              !.accumulated_text = text,
              !.now = clock,
              !.edits = IF flush THEN Append(@, ConcEdit(r, "flush", Snapshot(text)))
                                 ELSE @,
              !.pc = IF flush THEN "flush_edit" ELSE "pulling"]]
  /\ UNCHANGED << started_users, pc, handler, user_id, outcome, old_started, sent,
                  typing, clock >>
  /\ UNCHANGED request

\* lines 116-119 in request r: its intermediate edit returns, or raises and
\* is caught at line 117
ConcFlushReturn(r) ==
  /\ requests[r].pc = "flush_edit"
  /\ requests' = [requests EXCEPT ![r] =
       [@ EXCEPT !.last_update_time = requests[r].now, !.pc = "pulling"]]
  /\ UNCHANGED << started_users, pc, handler, user_id, outcome, old_started, sent,
                  typing, clock >>
  /\ UNCHANGED request

\* lines 56-57, 61-62, 122-125 in request r: its sequence ends
ConcPullExhausted(r) ==
  /\ requests[r].pc = "pulling"
  /\ requests' = [requests EXCEPT ![r] =
       [@ EXCEPT !.stream = "exhausted",
                 !.edits = Append(@, ConcEdit(r, "final",
                                      Snapshot(requests[r].accumulated_text))),
                 !.pc = "final_edit"]]
  /\ UNCHANGED << started_users, pc, handler, user_id, outcome, old_started, sent,
                  typing, clock >>
  /\ UNCHANGED request

\* lines 126-128 in request r: its pull raises
ConcPullError(r) ==
  /\ requests[r].pc = "pulling"
  /\ requests' = [requests EXCEPT ![r] =
       [@ EXCEPT !.stream = "error",
                 !.edits = Append(@, ConcEdit(r, "apology", APOLOGY_TEXT)),
                 !.pc = "apology_edit"]]
  /\ UNCHANGED << started_users, pc, handler, user_id, outcome, old_started, sent,
                  typing, clock >>
  /\ UNCHANGED request

\* line 125 in request r returns, or raises into lines 126-128
ConcFinalReturn(r, ok) ==
  /\ requests[r].pc = "final_edit"
  /\ requests' = [requests EXCEPT ![r] =
       IF ok THEN [@ EXCEPT !.pc = "done"]
             ELSE [@ EXCEPT !.edits = Append(@, ConcEdit(r, "apology", APOLOGY_TEXT)),
                            !.pc = "apology_edit"]]
  /\ UNCHANGED << started_users, pc, handler, user_id, outcome, old_started, sent,
                  typing, clock >>
  /\ UNCHANGED request

\* line 128 in request r returns or raises; the run ends
ConcApologyReturn(r) ==
  /\ requests[r].pc = "apology_edit"
  /\ requests' = [requests EXCEPT ![r].pc = "done"]
  /\ UNCHANGED << started_users, pc, handler, user_id, outcome, old_started, sent,
                  typing, clock >>
  /\ UNCHANGED request

\* time passes while some request waits for a pull or an intermediate edit
ConcTick ==
  /\ \E r \in Requests : requests[r].pc \in {"pulling", "flush_edit"}
  /\ clock + UPDATE_INTERVAL <= UPDATE_INTERVAL * ConcTicks
  /\ clock' = clock + UPDATE_INTERVAL
  /\ UNCHANGED << started_users, pc, handler, user_id, outcome, old_started, sent,
                  typing, requests >>
  /\ UNCHANGED request

\* both users have sent /start; no message is being handled yet
ConcInit ==
  /\ started_users = AUTHORIZED_USERS
  /\ pc = "idle"
  /\ handler = "none"
  /\ user_id = 0
  /\ outcome = "none"
  /\ old_started = {}
  /\ sent = <<>>
  /\ typing = 0
  /\ stream = "none"
  /\ upstream = <<>>
  /\ arrivals = <<>>
  /\ accumulated_text = <<>>
  /\ last_update_time = 0
  /\ now = 0
  /\ clock = 0
  /\ edits = <<>>
  /\ edit_results = <<>>
  /\ errors_logged = <<>>
  /\ requests = [r \in Requests |-> LocalsAtDispatch]

ConcNext ==
  \/ \E r \in Requests : ConcAccept(r)
  \/ \E r \in Requests, ok \in BOOLEAN : ConcPlaceholderReturn(r, ok)
  \/ \E r \in Requests, ok \in BOOLEAN : ConcTypingReturn(r, ok)
  \/ \E r \in Requests, c \in ConcFragments : ConcPull(r, c)
  \/ \E r \in Requests : ConcFlushReturn(r)
  \/ \E r \in Requests : ConcPullExhausted(r)
  \/ \E r \in Requests : ConcPullError(r)
  \/ \E r \in Requests, ok \in BOOLEAN : ConcFinalReturn(r, ok)
  \/ \E r \in Requests : ConcApologyReturn(r)
  \/ ConcTick

ConcSpec == ConcInit /\ [][ConcNext]_vars

\* ------------------------------------------------------ reference notions
\* the fragments delivered to the handler: the chunks that have content
Delivered == SelectSeq(upstream, LAMBDA c : c # EmptyContent)

RECURSIVE Concat(_)
Concat(ss) == IF ss = <<>> THEN <<>> ELSE Head(ss) \o Concat(Tail(ss))

NumEdits(kind) == Cardinality({i \in DOMAIN edits : edits[i].kind = kind})

\* a request that passed both checks of handle_message
Accepted ==
  /\ handler = "handle_message"
  /\ user_id \in AUTHORIZED_USERS
  /\ user_id \in old_started

\* position i opens a tag: a ">" follows it; with dotall FALSE no newline
\* lies between the two
Closes(s, i, dotall) ==
  \E j \in (i + 1)..Len(s) :
    /\ s[j] = ">"
    /\ dotall \/ \A k \in (i + 1)..(j - 1) : s[k] # "\n"

\* one pass, left to right: inside a tag everything is dropped up to and
\* including the next ">"; outside, a "<" that opens a tag starts one
RECURSIVE RefScan(_, _, _, _)
RefScan(s, i, inside, dotall) ==
  IF i > Len(s) THEN <<>>
  ELSE IF inside THEN RefScan(s, i + 1, s[i] # ">", dotall)
  ELSE IF s[i] = "<" /\ Closes(s, i, dotall) THEN RefScan(s, i + 1, TRUE, dotall)
  ELSE <<s[i]>> \o RefScan(s, i + 1, FALSE, dotall)

\* what is left between the first and the last character that is no whitespace
RefTrim(s) ==
  LET keep == {i \in DOMAIN s : s[i] \notin Whitespace}
  IN  IF keep = {} THEN <<>>
      ELSE SubSeq(s, CHOOSE i \in keep : \A j \in keep : i <= j,
                     CHOOSE i \in keep : \A j \in keep : i >= j)

RefSanitize(s, dotall) == RefTrim(RefScan(s, 1, FALSE, dotall))

\* the reference snapshot of buffers below the maximum message length
RefSnapshot(s) == RefSanitize(s, FALSE)

\* t holds a "<" and, later, a ">"; with sameline, no newline in between
HasOpenClose(t, sameline) ==
  \E i \in DOMAIN t : \E j \in DOMAIN t :
    /\ i < j
    /\ t[i] = "<"
    /\ t[j] = ">"
    /\ sameline => \A k \in (i + 1)..(j - 1) : t[k] # "\n"

\* every fragment arrived less than 4 seconds after streaming began
AllWithinInterval == \A i \in DOMAIN arrivals : arrivals[i] < UPDATE_INTERVAL

NoEditFailed == \A i \in DOMAIN edit_results : edit_results[i]

\* ------------------------------------------------------------------ claims

\* C1: an accepted request that reached streaming issues, besides its
\* intermediate edits, exactly one terminal edit: the final one or the
\* apology, never both, and sends one message only.
C1_OneTerminalEdit ==
  (Accepted /\ stream # "none") =>
    /\ sent = <<PROCESSING_TEXT>>
    /\ NumEdits("final") + NumEdits("apology") <= 1
    /\ (pc = "idle" => NumEdits("final") + NumEdits("apology") = 1)

\* C2: while the upstream raises no error, a failed edit is only logged: no
\* apology edit is issued and the streaming-error path is not taken.
C2_EditFailureNeverEscalates ==
  (Accepted /\ stream # "error") =>
    /\ NumEdits("apology") = 0
    /\ \A i \in DOMAIN errors_logged : errors_logged[i] # "Error during streaming"

\* C3: no failure of a send, an edit or the typing indicator leaves start or
\* handle_message as an uncaught exception.
C3_NoUncaughtPlatformFailure == outcome # "raised"

\* C4: after an upstream error the request is failed: the apology is the
\* last edit, it is the only terminal edit, nothing is pulled or edited
\* after it; with every fragment within the first 4 seconds it is the only
\* edit of the request.
C4_UpstreamErrorApology ==
  (Accepted /\ stream = "error") =>
    /\ pc \in {"apology_edit", "idle"}
    /\ edits # <<>>
    /\ edits[Len(edits)].kind = "apology"
    /\ edits[Len(edits)].text = APOLOGY_TEXT
    /\ NumEdits("apology") = 1
    /\ NumEdits("final") = 0
    /\ errors_logged # <<>>
    /\ errors_logged[Len(errors_logged)] = "Error during streaming"
    /\ AllWithinInterval =>
         /\ Len(edits) = 1
         /\ edits[1].text = APOLOGY_TEXT
         /\ edits[1].text # Snapshot(accumulated_text)

C4_Witness ==
  /\ Accepted
  /\ stream = "error"
  /\ pc = "idle"
  /\ Len(Delivered) = 2
  /\ AllWithinInterval
  /\ Len(edits) = 1

\* the end-to-end case of C5: three fragments, the second less than 4 seconds
\* after streaming began, the third at least 4 seconds after the second,
\* then the sequence ends
ThreeFragmentsDelayedThird ==
  /\ Accepted
  /\ stream = "exhausted"
  /\ Len(Delivered) = 3
  /\ arrivals[2] < UPDATE_INTERVAL
  /\ arrivals[3] - arrivals[2] >= UPDATE_INTERVAL

\* C5 as stated: the one intermediate edit shows fragments 1+2 only and the
\* final edit shows all three.
C5_IntermediateShowsFirstTwo ==
  ThreeFragmentsDelayedThird =>
    /\ NumEdits("flush") = 1
    /\ NumEdits("final") = 1
    /\ edits[1].kind = "flush"
    /\ edits[1].text = RefSnapshot(Delivered[1] \o Delivered[2])
    /\ edits[2].kind = "final"
    /\ edits[2].text = RefSnapshot(Concat(Delivered))

\* C5 amended: the one intermediate edit is issued on the arrival of the
\* third fragment and shows all three fragments, as does the final edit
\* that follows it.
C5_IntermediateShowsAllThree ==
  ThreeFragmentsDelayedThird =>
    /\ NumEdits("flush") = 1
    /\ NumEdits("final") = 1
    /\ edits[1].kind = "flush"
    /\ edits[1].at = arrivals[3]
    /\ edits[1].text = RefSnapshot(Concat(Delivered))
    /\ edits[2].kind = "final"
    /\ edits[2].text = RefSnapshot(Concat(Delivered))

C5_Witness ==
  /\ ThreeFragmentsDelayedThird
  /\ pc = "idle"
  /\ outcome = "returned"
  /\ Delivered = << <<"a">>, <<"<">>, <<">">> >>
  /\ Len(edits) = 2

\* "Hi", " there", "!"
HiThere == <<"H", "i">> \o <<" ", "t", "h", "e", "r", "e">> \o <<"!">>

\* C6: all fragments within the first 4 seconds, no upstream error, no edit
\* failure: one placeholder, one typing indicator, no intermediate edit, one
\* final edit showing the sanitized concatenation of the fragments.
C6_FastStreamOneFinalEdit ==
  (Accepted /\ stream = "exhausted" /\ AllWithinInterval /\ NoEditFailed) =>
    /\ sent = <<PROCESSING_TEXT>>
    /\ typing = 1
    /\ NumEdits("flush") = 0
    /\ Len(edits) = 1
    /\ edits[1].kind = "final"
    /\ edits[1].text = RefSnapshot(Concat(Delivered))
    /\ Snapshot(HiThere) = HiThere

C6_Witness ==
  /\ Accepted
  /\ stream = "exhausted"
  /\ AllWithinInterval
  /\ pc = "idle"
  /\ outcome = "returned"
  /\ Delivered = << <<"<">>, <<">">>, <<"a">> >>
  /\ edits[1].text = <<"a">>

\* C7: /start from a sender outside the authorized list: one reply, the
\* not-authorized text, and started_users as it was.
C7_UnauthorizedStart ==
  (handler = "start" /\ user_id \notin AUTHORIZED_USERS) =>
    /\ sent = <<NOT_AUTHORIZED_TEXT>>
    /\ started_users = old_started
    /\ user_id \notin started_users

C7_Witness ==
  /\ handler = "start"
  /\ user_id \notin AUTHORIZED_USERS
  /\ pc = "idle"
  /\ outcome = "returned"
  /\ old_started = AUTHORIZED_USERS

\* C8: a message of an authorized sender who has not started: one reply, the
\* prompt; no completion opened, no edit, no typing indicator, no change of
\* started_users.
C8_NotStartedPrompt ==
  (handler = "handle_message" /\ user_id \in AUTHORIZED_USERS
     /\ user_id \notin old_started) =>
    /\ sent = <<PLEASE_START_TEXT>>
    /\ stream = "none"
    /\ upstream = <<>>
    /\ edits = <<>>
    /\ typing = 0
    /\ started_users = old_started

C8_Witness ==
  /\ handler = "handle_message"
  /\ user_id \in AUTHORIZED_USERS
  /\ user_id \notin old_started
  /\ old_started # {}
  /\ pc = "idle"
  /\ outcome = "returned"

\* C9: a message of a sender outside the allow-list is ignored: nothing is
\* sent, edited or opened and started_users is as it was; a completion is
\* only ever opened for an allow-listed sender who was started.
C9_UnauthorizedIgnored ==
  /\ (handler = "handle_message" /\ user_id \notin AUTHORIZED_USERS) =>
       /\ pc = "idle"
       /\ outcome = "returned"
       /\ sent = <<>>
       /\ edits = <<>>
       /\ typing = 0
       /\ stream = "none"
       /\ upstream = <<>>
       /\ started_users = old_started
  /\ stream # "none" =>
       /\ user_id \in AUTHORIZED_USERS
       /\ user_id \in old_started
       /\ user_id \in started_users

C9_Witness ==
  /\ handler = "handle_message"
  /\ user_id \notin AUTHORIZED_USERS
  /\ old_started = AUTHORIZED_USERS
  /\ pc = "idle"

\* C10 as stated: the text of the edit is the buffer with every "<", any
\* characters at all, next ">" removed, trimmed; no "<" is left with a ">"
\* after it.
C10_SanitizeAnyCharacters ==
  pc = "final_edit" =>
    /\ edits[Len(edits)].text = RefSanitize(accumulated_text, TRUE)
    /\ ~HasOpenClose(edits[Len(edits)].text, FALSE)

\* C10 amended: the characters between "<" and the next ">" are any but a
\* newline; no "<" is left with a ">" after it on the same line.
C10_SanitizeWithinLine ==
  pc = "final_edit" =>
    /\ edits[Len(edits)].text = RefSanitize(accumulated_text, FALSE)
    /\ ~HasOpenClose(edits[Len(edits)].text, TRUE)

C10_Witness ==
  /\ pc = "final_edit"
  /\ accumulated_text = <<"<", "\n", ">", "<", ">">>
  /\ edits[Len(edits)].text = <<"<", "\n", ">">>

\* the last MAX_MESSAGE_LENGTH characters of t, all of t when it has fewer
RefTail(t) ==
  IF Len(t) <= MAX_MESSAGE_LENGTH THEN t
  ELSE [i \in 1..MAX_MESSAGE_LENGTH |-> t[Len(t) - MAX_MESSAGE_LENGTH + i]]

\* C11: the text of every edit showing model output is the sanitized buffer
\* of that moment, cut to its last 4096 characters when it is longer; no
\* such edit carries more than 4096 characters.
C11_SanitizeThenKeepTail ==
  /\ pc \in {"flush_edit", "final_edit"} =>
       edits[Len(edits)].text = RefTail(Sanitize(accumulated_text))
  /\ \A i \in DOMAIN edits :
       edits[i].kind \in {"flush", "final"} => Len(edits[i].text) <= MAX_MESSAGE_LENGTH

C11_Witness ==
  /\ pc = "flush_edit"
  /\ Len(Sanitize(accumulated_text)) = MAX_MESSAGE_LENGTH + 2
  /\ Len(edits[Len(edits)].text) = MAX_MESSAGE_LENGTH
  /\ accumulated_text[2] = ">"
  /\ edits[Len(edits)].text[1] = "a"

\* C12: what the adapter delivers, concatenated, is the concatenation of the
\* contents of all chunks the upstream produced, in order; the sequence ends
\* only in a step in which the upstream produces no chunk (its exhaustion),
\* and a chunk without content is passed over: the pull goes on, nothing is
\* delivered and nothing ends.
C12_AdapterFaithful ==
  /\ [](stream # "none" =>
          /\ accumulated_text = Concat(upstream)
          /\ Len(arrivals) = Len(Delivered))
  /\ [][(stream = "open" /\ stream' = "exhausted") => upstream' = upstream]_vars
  /\ [][(Len(upstream') = Len(upstream) + 1
           /\ upstream'[Len(upstream')] = EmptyContent) =>
          /\ pc' = "pulling"
          /\ stream' = "open"
          /\ arrivals' = arrivals
          /\ accumulated_text' = accumulated_text
          /\ edits' = edits]_vars

C12_Witness ==
  /\ stream = "exhausted"
  /\ upstream = << <<"a">>, EmptyContent, <<"<">> >>
  /\ accumulated_text = <<"a", "<">>
  /\ Len(arrivals) = 2

\* the intermediate edits, by their position in edits
FlushIndices == {i \in DOMAIN edits : edits[i].kind = "flush"}

\* when the last intermediate edit was issued; when streaming began if none was
LastFlushAt ==
  IF FlushIndices = {} THEN 0
  ELSE edits[CHOOSE i \in FlushIndices : \A j \in FlushIndices : j <= i].at

\* C13: a fragment arrival issues an intermediate edit exactly when at least
\* 4 seconds have passed since the last one was issued (since streaming began
\* if there was none); so two intermediate edits are at least 4 seconds
\* apart, whatever the edits' duration and result, and none is issued in the
\* first 4 seconds.
C13_Throttle ==
  /\ [](\A i \in FlushIndices :
          /\ edits[i].at >= UPDATE_INTERVAL
          /\ \A j \in FlushIndices : i < j => edits[j].at - edits[i].at >= UPDATE_INTERVAL)
  /\ [][Len(arrivals') = Len(arrivals) + 1 =>
          IF clock - LastFlushAt >= UPDATE_INTERVAL
            THEN /\ Len(edits') = Len(edits) + 1
                 /\ edits'[Len(edits')].kind = "flush"
                 /\ edits'[Len(edits')].at = clock
            ELSE edits' = edits]_vars

C13_Witness ==
  /\ Len(edits) = 2
  /\ FlushIndices = {1, 2}
  /\ edit_results = <<FALSE>>
  /\ edits[2].at - edits[1].at = UPDATE_INTERVAL
  /\ Len(arrivals) = 3

\* the buffer holds text the placeholder does not show
Unshown ==
  IF FlushIndices = {} THEN accumulated_text # <<>>
  ELSE edits[CHOOSE i \in FlushIndices : \A j \in FlushIndices : j <= i].text
         # RefSnapshot(accumulated_text)

\* the concatenation of the first k fragments delivered
FirstDelivered(k) == Concat(SubSeq(Delivered, 1, k))

FinalIndex ==
  IF NumEdits("final") = 0 THEN 0
  ELSE CHOOSE i \in DOMAIN edits : edits[i].kind = "final"

\* C15: once the sequence is exhausted a final edit has been issued, whatever
\* the time since the last intermediate edit; it shows the whole buffer, the
\* concatenation of all fragments delivered; when it succeeded the handler
\* has returned and nothing was sent, pulled or edited after it.
C15_FinalEditUnconditional ==
  (Accepted /\ stream = "exhausted") =>
    /\ NumEdits("final") = 1
    /\ edits[FinalIndex].text = RefSnapshot(Concat(Delivered))
    /\ \A i \in 1..(FinalIndex - 1) : edits[i].kind = "flush"
    /\ (Len(edit_results) >= FinalIndex /\ edit_results[FinalIndex]) =>
         /\ pc = "idle"
         /\ outcome = "returned"
         /\ Len(edits) = FinalIndex
         /\ sent = <<PROCESSING_TEXT>>
         /\ typing = 1

C15_Witness ==
  /\ Accepted
  /\ stream = "exhausted"
  /\ pc = "idle"
  /\ FinalIndex = 2
  /\ edits[1].kind = "flush"
  /\ edits[1].at = edits[2].at
  /\ edit_results = <<TRUE, TRUE>>

\* C16: the buffer is the concatenation, in order, of the fragments delivered
\* so far; within a request a step leaves it as it is or appends the fragment
\* the upstream just produced, so it only grows and every earlier buffer is a
\* prefix of it; the return of an edit, with either result, and the snapshot
\* taken for an edit leave it untouched.
C16_BufferAppendOnly ==
  /\ [](stream # "none" => accumulated_text = Concat(Delivered))
  /\ [][pc # "idle" =>
          \/ accumulated_text' = accumulated_text
          \/ /\ Len(upstream') = Len(upstream) + 1
             /\ upstream'[Len(upstream')] # EmptyContent
             /\ accumulated_text' = accumulated_text \o upstream'[Len(upstream')]
             /\ Len(accumulated_text') > Len(accumulated_text)]_vars
  /\ [][(pc # "idle" /\ edit_results' # edit_results) =>
          accumulated_text' = accumulated_text]_vars

C16_Witness ==
  /\ pc = "flush_edit"
  /\ accumulated_text = <<"a", "<", ">">>
  /\ edits[1].text = <<"a">>
  /\ Len(arrivals) = 3

\* the edits issued and not yet returned
OutstandingEdits == Len(edits) - Len(edit_results)

\* C17: the operations of a request are strictly sequential. At most one edit
\* is outstanding, and exactly when the handler waits at an edit; while a pull
\* is outstanding no edit is, and every chunk pulled before has been consumed.
\* A pull returns one chunk at a time and only while the handler waits for it;
\* an edit is issued only when every earlier edit has returned; the edits are
\* issued in non-decreasing time order.
C17_StrictlySequential ==
  /\ [](/\ OutstandingEdits \in {0, 1}
        /\ OutstandingEdits = 1 <=> pc \in {"flush_edit", "final_edit", "apology_edit"}
        /\ pc = "pulling" =>
             /\ OutstandingEdits = 0
             /\ accumulated_text = Concat(upstream)
             /\ Len(arrivals) = Len(Delivered)
        /\ \A i, j \in DOMAIN edits : i < j => edits[i].at <= edits[j].at)
  /\ [][(pc # "idle" /\ upstream' # upstream) =>
          /\ pc = "pulling"
          /\ OutstandingEdits = 0
          /\ Len(upstream') = Len(upstream) + 1
          /\ SubSeq(upstream', 1, Len(upstream)) = upstream]_vars
  /\ [][(pc # "idle" /\ edits' # edits) =>
          /\ Len(edits') = Len(edits) + 1
          /\ SubSeq(edits', 1, Len(edits)) = edits
          /\ Len(edit_results') = Len(edits)]_vars

C17_Witness ==
  /\ pc = "flush_edit"
  /\ Len(edits) = 2
  /\ Len(edit_results) = 1
  /\ edits[1].at < edits[2].at
  /\ Len(upstream) = 3

\* C18: with requests interleaved, each has its own placeholder, buffer and
\* last-edit time.  Two placeholders are distinct messages; every edit of a
\* request targets its own placeholder; the buffer is the concatenation of
\* the request's own fragments.  A step changes the locals of one request
\* only.  An edit, when it is issued, is added after the request's earlier
\* edits and shows the snapshot of the request's own fragments so far, or the
\* fixed apology, which is issued only on the request's own failed pull or
\* failed final edit.  On a fragment's arrival the edit is issued exactly
\* when the request's own last-edit time is an interval back.
C18_RequestsIndependent ==
  /\ [](\A r \in Requests :
          /\ requests[r].stream # "none" =>
               requests[r].accumulated_text = Concat(requests[r].upstream)
          /\ \A q \in Requests \ {r} :
               requests[r].processing_message # 0 =>
                 requests[r].processing_message # requests[q].processing_message
          /\ \A i \in DOMAIN requests[r].edits :
               /\ requests[r].edits[i].target = requests[r].processing_message
               /\ requests[r].edits[i].target # 0)
  /\ [][\E r \in Requests : \A q \in Requests \ {r} : requests'[q] = requests[q]]_vars
  /\ [][\A r \in Requests :
          requests'[r].edits # requests[r].edits =>
            LET n == Len(requests[r].edits)
                e == requests'[r].edits[n + 1]
            IN  /\ Len(requests'[r].edits) = n + 1
                /\ SubSeq(requests'[r].edits, 1, n) = requests[r].edits
                /\ requests'[r].processing_message = requests[r].processing_message
                /\ IF e.kind = "apology"
                     THEN /\ e.text = APOLOGY_TEXT
                          /\ \/ requests[r].pc = "pulling" /\ requests'[r].stream = "error"
                             \/ requests[r].pc = "final_edit"
                     ELSE e.text = RefSnapshot(Concat(requests'[r].upstream))]_vars
  /\ [][\A r \in Requests :
          Len(requests'[r].upstream) > Len(requests[r].upstream) =>
            (requests'[r].edits # requests[r].edits
               <=> clock - requests[r].last_update_time >= UPDATE_INTERVAL)]_vars

\* both requests are in flight with different buffers; one has had its pull
\* fail after an intermediate edit, the other is waiting for its own
\* intermediate edit
C18_Witness ==
  \E r \in Requests : \E q \in Requests \ {r} :
    /\ requests[r].pc = "apology_edit"
    /\ requests[r].stream = "error"
    /\ Len(requests[r].edits) = 2
    /\ requests[r].edits[1].text = <<"a">>
    /\ requests[q].pc = "flush_edit"
    /\ requests[q].accumulated_text = <<"<", "a", ">", "a">>
    /\ requests[q].edits[1].text = <<"a">>
    /\ requests[q].processing_message = 1
    /\ requests[r].processing_message = 2

\* C19: every accepted request ends with its terminal edit issued.  When the
\* run of an accepted request whose placeholder was sent has ended, a final
\* or an apology edit is among its edits.
C19_TerminalEditIssued ==
  (Accepted /\ pc = "idle" /\ typing = 1) =>
    NumEdits("final") + NumEdits("apology") >= 1

\* C20: started_users holds identifiers of AUTHORIZED_USERS only.  No step
\* removes an identifier; the set changes only in the dispatch of /start from
\* an authorized sender, which adds that sender; /start from a sender already
\* in the set leaves it as it is.
C20_StartedUsers ==
  /\ [](started_users \subseteq AUTHORIZED_USERS)
  /\ [][/\ started_users \subseteq started_users'
        /\ started_users' # started_users =>
             /\ pc = "idle"
             /\ handler' = "start"
             /\ user_id' \in AUTHORIZED_USERS
             /\ started_users' = started_users \cup {user_id'}
        /\ (pc = "idle" /\ pc' = "start_reply" /\ user_id' \in started_users) =>
             started_users' = started_users]_vars

\* a started user repeats /start when every authorized user has started
C20_Witness ==
  /\ handler = "start"
  /\ pc = "start_reply"
  /\ user_id \in old_started
  /\ old_started = AUTHORIZED_USERS
  /\ started_users = AUTHORIZED_USERS

====
